---- MODULE Spec2Model ----
(***************************************************************************)
(* The replication core of one replica (HotStuffCore): block delivery,     *)
(* highest-QC tracking, proposal handling, the Echo/Ack propagation        *)
(* engine, voting, pre-commit and commit, and the Blame / BlameNotify view *)
(* change.  One action per public handler; a handler runs to completion    *)
(* together with every handler it calls (self-delivered messages).         *)
(***************************************************************************)
EXTENDS Integers, Sequences, FiniteSets, TLC

(* ---------------------------- bounds ----------------------------------- *)
NReplicas == 3
NFaulty == 1
MaxView == 1
MaxCount == 2
MaxStaleness == 5

(* ------------------------ program constants ---------------------------- *)
BLOCK == 0
commit_interval == 2
id == 0
NOVOTEBROADCAST == FALSE

Replicas == 0 .. (NReplicas - 1)
nmajority == NReplicas - NFaulty
Opcodes == {BLOCK, BLOCK + 1}

(* --------------------- the universe of blocks -------------------------- *)
(* A block is identified by its content hash; the universe is a fixed DAG. *)
(* Block b0 is genesis.  Parents[b] is the parent_hashes vector of b.      *)
b0 == 0
Blocks == 0 .. 7
Parents ==
    [b \in Blocks |->
        CASE b = 0 -> << >>
          [] b = 1 -> <<0>>
          [] b = 2 -> <<0>>
          [] b = 3 -> <<1>>
          [] b = 4 -> <<1>>
          [] b = 5 -> <<3, 4>>
          [] b = 7 -> <<5>>
          [] OTHER -> <<1>>]
ParentSet(b) == {Parents[b][i] : i \in 1 .. Len(Parents[b])}
Height ==
    [b \in Blocks |->
        CASE b = 0 -> 0
          [] b \in {1, 2} -> 1
          [] b \in {3, 4, 6} -> 2
          [] b = 7 -> 4
          [] OTHER -> 3]
Heights == {Height[b] : b \in Blocks}
(* qc_ref_hash carried by a block received from the network ({} = no qc).  *)
QcRefHash ==
    [b \in Blocks |->
        CASE b = 3 -> {1}
          [] b = 6 -> {2}
          [] OTHER -> {}]
(* cmds of each block, as command digests.                                 *)
Cmds ==
    [b \in Blocks |->
        CASE b = 0 -> << >>
          [] b = 5 -> <<"c1", "c2">>
          [] OTHER -> <<"c1">>]

(* ------------------------------ state ---------------------------------- *)
VARIABLES
    store,              \* blocks held by storage (add_blk)
    parents,            \* blk->parents of every block, as prune leaves them
    delivered,          \* blocks with blk->delivered
    qc_ref,             \* blk->qc_ref, as a set of at most one block
    decision,           \* blk->decision
    voted,              \* blk->voted
    preCommitted,       \* blk->preCommitted
    self_qc,            \* blk->self_qc: the signers of its parts, in add_part order
    hqc,                \* hqc.first (hqc.second is the QC over it)
    b_exec,
    vheight,
    view,
    view_trans,
    proposals,          \* height -> set of blocks
    finished_propose,   \* blocks whose flag is true
    blamed,
    blame_qc,           \* the view it certifies BLAME for, and its signers
    last_qc_ref,
    tails,
    propagate_echos,
    propagate_acks,
    vote_disabled,
    qc_waiting,         \* blocks with a pending async_qc_finish promise
    blame_timer,        \* the host's timers, as armed flags / sets
    viewtrans_timer,
    propagate_timer,    \* hash -> "idle" | "armed" | "fired"
    ack_timer,
    pre_commit_timer,   \* blocks with an armed pre-commit timer
    out,                \* outputs (do_* calls) of the last handler, in order
    exc,                \* the error the last handler raised, or "none"
    votes_sent,         \* history: blocks this replica issued a Vote for
    propagated          \* history: on_propose_propagated invocations per hash

vars == <<store, parents, delivered, qc_ref, decision, voted, preCommitted, self_qc, hqc, b_exec,
          vheight, view, view_trans, proposals, finished_propose, blamed,
          blame_qc, last_qc_ref, tails, propagate_echos, propagate_acks, vote_disabled,
          qc_waiting, blame_timer, viewtrans_timer, propagate_timer, ack_timer,
          pre_commit_timer, out, exc, votes_sent, propagated>>

(* The state as one record, so that handlers compose as in the code.       *)
Cur ==
    [store |-> store, parents |-> parents, delivered |-> delivered, qc_ref |-> qc_ref,
     decision |-> decision, voted |-> voted, preCommitted |-> preCommitted,
     self_qc |-> self_qc,
     hqc |-> hqc, b_exec |-> b_exec, vheight |-> vheight, view |-> view,
     view_trans |-> view_trans, proposals |-> proposals,
     finished_propose |-> finished_propose, blamed |-> blamed,
     blame_qc |-> blame_qc,
     last_qc_ref |-> last_qc_ref, tails |-> tails,
     propagate_echos |-> propagate_echos, propagate_acks |-> propagate_acks,
     vote_disabled |-> vote_disabled, qc_waiting |-> qc_waiting,
     blame_timer |-> blame_timer, viewtrans_timer |-> viewtrans_timer,
     propagate_timer |-> propagate_timer, ack_timer |-> ack_timer,
     pre_commit_timer |-> pre_commit_timer, out |-> << >>, exc |-> "none",
     votes_sent |-> votes_sent, propagated |-> propagated]

Install(s) ==
    /\ store' = s.store
    /\ parents' = s.parents
    /\ delivered' = s.delivered
    /\ qc_ref' = s.qc_ref
    /\ decision' = s.decision
    /\ voted' = s.voted
    /\ preCommitted' = s.preCommitted
    /\ self_qc' = s.self_qc
    /\ hqc' = s.hqc
    /\ b_exec' = s.b_exec
    /\ vheight' = s.vheight
    /\ view' = s.view
    /\ view_trans' = s.view_trans
    /\ proposals' = s.proposals
    /\ finished_propose' = s.finished_propose
    /\ blamed' = s.blamed
    /\ blame_qc' = s.blame_qc
    /\ last_qc_ref' = s.last_qc_ref
    /\ tails' = s.tails
    /\ propagate_echos' = s.propagate_echos
    /\ propagate_acks' = s.propagate_acks
    /\ vote_disabled' = s.vote_disabled
    /\ qc_waiting' = s.qc_waiting
    /\ blame_timer' = s.blame_timer
    /\ viewtrans_timer' = s.viewtrans_timer
    /\ propagate_timer' = s.propagate_timer
    /\ ack_timer' = s.ack_timer
    /\ pre_commit_timer' = s.pre_commit_timer
    /\ out' = s.out
    /\ exc' = s.exc
    /\ votes_sent' = s.votes_sent
    /\ propagated' = s.propagated

(* State after construction, add_replica for every replica, and on_init.   *)
Init ==
    /\ store = {b0}
    /\ parents = Parents
    /\ delivered = {b0}
    /\ qc_ref = [b \in Blocks |-> IF b = b0 THEN {b0} ELSE {}]
    /\ decision = [b \in Blocks |-> IF b = b0 THEN 1 ELSE 0]
    /\ voted = [b \in Blocks |-> IF b = b0 THEN Replicas ELSE {}]
    /\ preCommitted = [b \in Blocks |-> {}]
    /\ self_qc = [b \in Blocks |-> << >>]
    /\ hqc = b0
    /\ b_exec = b0
    /\ vheight = 0
    /\ view = 0
    /\ view_trans = FALSE
    /\ proposals = [h \in Heights |-> {}]
    /\ finished_propose = {}
    /\ blamed = {}
    /\ blame_qc = [view |-> 0, parts |-> {}]
    /\ last_qc_ref = b0
    /\ tails = {b0}
    /\ propagate_echos = [b \in Blocks |-> {}]
    /\ propagate_acks = [b \in Blocks |-> {}]
    /\ vote_disabled = FALSE
    /\ qc_waiting = {}
    /\ blame_timer = TRUE
    /\ viewtrans_timer = FALSE
    /\ propagate_timer = [b \in Blocks |-> "idle"]
    /\ ack_timer = [b \in Blocks |-> "idle"]
    /\ pre_commit_timer = {}
    /\ out = << >>
    /\ exc = "none"
    /\ votes_sent = {}
    /\ propagated = [b \in Blocks |-> 0]

(* ------------------------- small helpers ------------------------------- *)
Raise(s, e) == [s EXCEPT !.exc = e]
Failed(s) == s.exc # "none"
Emit(s, o) == [s EXCEPT !.out = Append(@, o)]
The(S) == CHOOSE x \in S : TRUE

(* The pacemaker's leader of the current view.                             *)
get_proposer(s) == s.view % NReplicas

(* b = b->parents[0] repeated while b->height > h.                         *)
RECURSIVE WalkDown(_, _)
WalkDown(b, h) == IF Height[b] > h THEN WalkDown(Parents[b][1], h) ELSE b

(* The blocks that walk passes (those of height > h), tip first.           *)
RECURSIVE WalkQueue(_, _)
WalkQueue(b, h) ==
    IF Height[b] > h THEN <<b>> \o WalkQueue(Parents[b][1], h) ELSE << >>

Reverse(q) == [i \in 1 .. Len(q) |-> q[Len(q) + 1 - i]]
SeqSet(q) == {q[i] : i \in 1 .. Len(q)}

(* std::set<block_t, BlockHeightCmp>: elements of equal height are equal.  *)
TailsErase(t, b) == {x \in t : Height[x] # Height[b]}
TailsInsert(t, b) == IF \E x \in t : Height[x] = Height[b] THEN t ELSE t \cup {b}
RECURSIVE TailsEraseAll(_, _)
TailsEraseAll(t, ps) ==
    IF ps = << >> THEN t ELSE TailsEraseAll(TailsErase(t, Head(ps)), Tail(ps))

(* A handler is a composition of its statements. A statement that follows  *)
(* a call that may throw starts with the test Failed(s): when the call     *)
(* threw, the rest of the caller is skipped and the error propagates.      *)

(* --------------------------- promises ---------------------------------- *)
on_qc_finish(s, blk) ==
    IF blk \in s.qc_waiting
    THEN Emit([s EXCEPT !.qc_waiting = @ \ {blk}], <<"resolve_qc_finish", blk>>)
    ELSE s

(* async_qc_finish(blk): a promise resolved at once for genesis or a block *)
(* whose echo set has reached nmajority, else the pending promise of blk.  *)
async_qc_finish(s, blk) ==
    IF Height[blk] = 0 \/ Cardinality(s.propagate_echos[blk]) >= nmajority
    THEN Emit(s, <<"resolve_qc_finish", blk>>)
    ELSE [s EXCEPT !.qc_waiting = @ \cup {blk}]

on_hqc_update(s) == Emit(s, <<"resolve_hqc_update", s.hqc>>)
on_propose_(s, blk) == Emit(s, <<"resolve_propose", blk>>)
on_receive_proposal_(s, blk) == Emit(s, <<"resolve_receive_proposal", blk>>)
on_view_change(s) == Emit(s, <<"resolve_view_change", s.view>>)
on_view_trans(s) == Emit(s, <<"resolve_view_trans">>)

(* --------------------------- safety core ------------------------------- *)
(* qc_ref_hash: the qc_ref_hash the block carries ({} when blk->qc is null) *)
(* A mutation: only parents[0] is looked up.                               *)
ParentsDelivered_first(s, blk) == Parents[blk][1] \in s.delivered

(* get_delivered_blk(hash) succeeds for every hash of blk->parent_hashes   *)
ParentsDelivered(s, blk) == ParentSet(blk) \subseteq s.delivered

on_deliver_blk(s, blk, qc_ref_hash) ==
    IF blk \in s.delivered THEN s
    ELSE IF ~ParentsDelivered(s, blk)
    THEN Raise(s, "block not delivered")
    ELSE IF ~(qc_ref_hash \subseteq s.store)
    THEN Raise(s, "block referred by qc not fetched")
    ELSE [s EXCEPT !.qc_ref[blk] = qc_ref_hash,
                   !.tails = TailsInsert(TailsEraseAll(@, Parents[blk]), blk),
                   !.delivered = @ \cup {blk}]

update_hqc(s, _hqc) ==
    IF Height[_hqc] > Height[s.hqc]
    THEN on_hqc_update([s EXCEPT !.hqc = _hqc])
    ELSE s

(* Finality(rid, decision, cmd_idx, cmd_height, cmd_hash, blk_hash)       *)
Finality(rid, dec, cmd_idx, cmd_height, cmd_hash, blk_hash) ==
    <<"decide", rid, dec, cmd_idx, cmd_height, cmd_hash, blk_hash>>

RECURSIVE CommitOutputs(_)
CommitOutputs(q) ==
    IF q = << >> THEN << >>
    ELSE <<<<"consensus", Head(q)>>>>
         \o [i \in 1 .. Len(Cmds[Head(q)]) |->
                Finality(id, 1, i - 1, Height[Head(q)], Cmds[Head(q)][i], Head(q))]
         \o CommitOutputs(Tail(q))

CommitReaches(s, b) == b = s.b_exec \/ s.decision[b] = 1

(* A mutation: the queue is emitted as collected, tip first.               *)
CommitBlocks_tipFirst(s, blk, commit_queue) ==
    [s EXCEPT !.decision = [x \in Blocks |->
                               IF x \in SeqSet(commit_queue) THEN 1 ELSE @[x]],
              !.out = @ \o CommitOutputs(commit_queue),
              !.b_exec = blk]

CommitBlocks(s, blk, commit_queue) ==
    [s EXCEPT !.decision = [x \in Blocks |->
                               IF x \in SeqSet(commit_queue) THEN 1 ELSE @[x]],
              !.out = @ \o CommitOutputs(Reverse(commit_queue)),
              !.b_exec = blk]

check_commit(s, blk) ==
    IF Height[blk] = 0 THEN s
    ELSE IF ~CommitReaches(s, WalkDown(blk, Height[s.b_exec]))
    THEN Raise(s, "safety breached")
    ELSE CommitBlocks(s, blk, WalkQueue(blk, Height[s.b_exec]))

(* --------------------------- view change ------------------------------- *)
RECURSIVE _new_view(_)
(* bn_view, bn_hqc, bn_qc: the view, the hqc block hash and the blame QC   *)
(* the message carries                                                     *)
on_receive_blamenotify(s, bn_view, bn_hqc, bn_qc) ==
    IF s.view_trans THEN s ELSE _new_view([s EXCEPT !.blame_qc = bn_qc])

(* A mutation: the view-transition timer is not armed.                     *)
NewViewOutputs_noTimer(s, bn_view, bn_hqc) ==
    [s EXCEPT !.out = @ \o << <<"broadcast_blamenotify", bn_view, bn_hqc>>,
                               <<"stop_commit_timer_all">> >>]

NewViewOutputs(s, bn_view, bn_hqc) ==
    [s EXCEPT !.out = @ \o << <<"broadcast_blamenotify", bn_view, bn_hqc>>,
                               <<"stop_commit_timer_all">>,
                               <<"set_viewtrans_timer", 2>> >>,
              !.viewtrans_timer = TRUE]

_new_view(s) ==
    NewViewOutputs(
        on_receive_blamenotify(on_view_trans([s EXCEPT !.view_trans = TRUE]),
                               s.view, s.hqc, s.blame_qc),
        s.view, s.hqc)

(* blamed.insert(blame.blamer) and blame_qc->add_part(blame.blamer, cert)  *)
RecordBlame(s, blamer) ==
    [s EXCEPT !.blamed = @ \cup {blamer},
              !.blame_qc.parts = @ \cup {blamer}]

(* A mutation: a Blame of an already counted blamer is counted again.      *)
BlameAccepted_recount(s, blamer) ==
    /\ ~s.view_trans
    /\ Cardinality(s.blamed) < nmajority

BlameAccepted(s, blamer) ==
    /\ ~s.view_trans
    /\ Cardinality(s.blamed) < nmajority
    /\ blamer \notin s.blamed

(* A mutation: the view transition waits for one more Blame.               *)
BlameQuorum_late(s) == Cardinality(s.blamed) + 1 = nmajority + 1

(* ++qsize == config.nmajority                                             *)
BlameQuorum(s) == Cardinality(s.blamed) + 1 = nmajority

on_receive_blame(s, blamer, blame_view) ==
    IF ~BlameAccepted(s, blamer) THEN s
    ELSE IF BlameQuorum(s)
    THEN _new_view(RecordBlame(s, blamer))
    ELSE RecordBlame(s, blamer)

_blame(s) ==
    Emit(on_receive_blame([s EXCEPT !.blame_timer = FALSE], id, s.view),
         <<"broadcast_blame", id, s.view>>)

ViewTransOutputs(s) ==
    Emit(on_view_change(Emit(s, <<"set_blame_timer", 3>>)), <<"notify", s.hqc>>)

(* A mutation: the proposals of the old view are kept.                     *)
on_viewtrans_timeout_keep(s) ==
    ViewTransOutputs([s EXCEPT !.view = @ + 1,
                               !.view_trans = FALSE,
                               !.blame_qc = [view |-> s.view + 1, parts |-> {}],
                               !.blamed = {},
                               !.blame_timer = TRUE,
                               !.viewtrans_timer = FALSE])

on_viewtrans_timeout(s) ==
    ViewTransOutputs([s EXCEPT !.view = @ + 1,
                               !.view_trans = FALSE,
                               !.proposals = [h \in Heights |-> {}],
                               !.blame_qc = [view |-> s.view + 1, parts |-> {}],
                               !.blamed = {},
                               !.blame_timer = TRUE,
                               !.viewtrans_timer = FALSE])

(* ------------------ proposals, propagation, votes ---------------------- *)
RECURSIVE on_receive_proposal(_, _, _)
RECURSIVE on_receive_vote(_, _, _)
RECURSIVE _vote(_, _)
RECURSIVE on_propose_propagated(_, _)
RECURSIVE on_receive_ack(_, _, _, _)
RECURSIVE on_receive_echo(_, _, _, _)
RECURSIVE _propagate_blk(_, _)

is_propagate_timeout(s, msg_hash) == s.propagate_timer[msg_hash] = "fired"
is_ack_timeout(s, msg_hash) == s.ack_timer[msg_hash] = "fired"
IsCommitHeight(h) == h % commit_interval = 0

BroadcastVote(s, blk) ==
    IF Failed(s) THEN s
    ELSE Emit([s EXCEPT !.votes_sent = @ \cup {blk}], <<"broadcast_vote", blk>>)

_vote(s, blk) ==
    BroadcastVote(IF NOVOTEBROADCAST THEN s ELSE on_receive_vote(s, id, blk), blk)

SetPreCommitTimer(s, blk_hash) ==
    IF Failed(s) THEN s
    ELSE IF s.qc_ref[blk_hash] # {}
    THEN Emit([s EXCEPT !.pre_commit_timer = @ \cup s.qc_ref[blk_hash]],
              <<"set_pre_commit_timer", The(s.qc_ref[blk_hash]), 2>>)
    ELSE s

CountPropagated(s, blk_hash) ==
    [s EXCEPT !.propagated[blk_hash] = IF @ < MaxCount THEN @ + 1 ELSE @]

(* A mutation: the pre-commit timer is armed only by a voting replica.     *)
on_propose_propagated_voterOnly(s, blk_hash) ==
    IF s.view_trans THEN CountPropagated(s, blk_hash)
    ELSE IF blk_hash \notin s.delivered
    THEN Raise(CountPropagated(s, blk_hash), "block not delivered")
    ELSE IF ~s.vote_disabled
    THEN SetPreCommitTimer(_vote(CountPropagated(s, blk_hash), blk_hash), blk_hash)
    ELSE CountPropagated(s, blk_hash)

on_propose_propagated(s, blk_hash) ==
    IF s.view_trans THEN CountPropagated(s, blk_hash)
    ELSE IF blk_hash \notin s.delivered
    THEN Raise(CountPropagated(s, blk_hash), "block not delivered")
    ELSE SetPreCommitTimer(IF ~s.vote_disabled
                           THEN _vote(CountPropagated(s, blk_hash), blk_hash)
                           ELSE CountPropagated(s, blk_hash),
                           blk_hash)

(* A mutation: every recorded ack counts as completing the quorum.         *)
AckCompletes_any(s, msg_hash) ==
    /\ Cardinality(s.propagate_acks[msg_hash]) + 1 >= 1
    /\ ~is_ack_timeout(s, msg_hash)

(* qsize + 1 == config.nmajority && !is_ack_timeout(msg_hash)              *)
AckCompletes(s, msg_hash) ==
    /\ Cardinality(s.propagate_acks[msg_hash]) + 1 = nmajority
    /\ ~is_ack_timeout(s, msg_hash)

on_receive_ack(s, rid, msg_hash, opcode) ==
    IF Cardinality(s.propagate_acks[msg_hash]) >= nmajority THEN s
    ELSE IF rid \in s.propagate_acks[msg_hash] THEN s
    ELSE IF AckCompletes(s, msg_hash) /\ opcode = BLOCK
    THEN on_propose_propagated(
             [s EXCEPT !.propagate_acks[msg_hash] = @ \cup {rid}], msg_hash)
    ELSE [s EXCEPT !.propagate_acks[msg_hash] = @ \cup {rid}]

(* A mutation: the propagation timer is not consulted.                     *)
EchoCompletes_noTimeout(s, msg_hash) ==
    Cardinality(s.propagate_echos[msg_hash]) + 1 = nmajority

EchoCompletes(s, msg_hash) ==
    /\ Cardinality(s.propagate_echos[msg_hash]) + 1 = nmajority
    /\ ~is_propagate_timeout(s, msg_hash)

(* A mutation: the first echo after the quorum is not answered.            *)
EchoLate_skipFirst(s, msg_hash) ==
    /\ Cardinality(s.propagate_echos[msg_hash]) + 1 > nmajority + 1
    /\ ~is_ack_timeout(s, msg_hash)

(* qsize + 1 > config.nmajority && !is_ack_timeout(msg_hash)               *)
EchoLate(s, msg_hash) ==
    /\ Cardinality(s.propagate_echos[msg_hash]) + 1 > nmajority
    /\ ~is_ack_timeout(s, msg_hash)

(* The proposal is broadcast again and the Ack goes to all echoers.        *)
AckOutputs(s, msg_hash) ==
    [s EXCEPT !.out = @ \o << <<"broadcast_proposal", msg_hash>>,
                               <<"multicast_ack", msg_hash,
                                 s.propagate_echos[msg_hash]>> >>]

SetAckTimer(s, msg_hash) ==
    IF Failed(s) THEN s
    ELSE Emit([s EXCEPT !.ack_timer[msg_hash] = "armed"],
              <<"set_ack_timer", msg_hash, 2>>)

(* A mutation: the Ack phase is not skipped for a non-boundary height.     *)
EchoQuorumStep_noSkip(s1, msg_hash) ==
    IF msg_hash \notin s1.delivered THEN Raise(s1, "block not delivered")
    ELSE SetAckTimer(
             IF id \in s1.propagate_echos[msg_hash]
             THEN on_receive_ack(AckOutputs(on_qc_finish(s1, msg_hash), msg_hash),
                                 id, msg_hash, BLOCK)
             ELSE AckOutputs(on_qc_finish(s1, msg_hash), msg_hash),
             msg_hash)

(* on_receive_echo once the signer is recorded (s1) and the first quorum   *)
(* test holds with opcode BLOCK.                                           *)
EchoQuorumStep(s1, msg_hash) ==
    IF msg_hash \notin s1.delivered THEN Raise(s1, "block not delivered")
    ELSE IF ~IsCommitHeight(Height[msg_hash]) THEN on_qc_finish(s1, msg_hash)
    ELSE SetAckTimer(
             IF id \in s1.propagate_echos[msg_hash]
             THEN on_receive_ack(AckOutputs(on_qc_finish(s1, msg_hash), msg_hash),
                                 id, msg_hash, BLOCK)
             ELSE AckOutputs(on_qc_finish(s1, msg_hash), msg_hash),
             msg_hash)

(* on_receive_echo once the signer is recorded (s1) and the late-echo test *)
(* holds.                                                                  *)
EchoLateStep(s1, rid, msg_hash) ==
    IF msg_hash \notin s1.delivered THEN Raise(s1, "block not delivered")
    ELSE IF ~IsCommitHeight(Height[msg_hash]) THEN s1
    ELSE IF rid = id THEN on_receive_ack(s1, id, msg_hash, BLOCK)
    ELSE Emit(s1, <<"send_ack", msg_hash, rid>>)

on_receive_echo(s, rid, msg_hash, opcode) ==
    IF rid \in s.propagate_echos[msg_hash] THEN s
    ELSE IF EchoCompletes(s, msg_hash) /\ opcode = BLOCK
    THEN EchoQuorumStep([s EXCEPT !.propagate_echos[msg_hash] = @ \cup {rid}],
                        msg_hash)
    ELSE IF EchoLate(s, msg_hash)
    THEN EchoLateStep([s EXCEPT !.propagate_echos[msg_hash] = @ \cup {rid}],
                      rid, msg_hash)
    ELSE [s EXCEPT !.propagate_echos[msg_hash] = @ \cup {rid}]

SetPropagateTimer(s, blk) ==
    IF Failed(s) THEN s
    ELSE Emit([s EXCEPT !.propagate_timer[blk] = "armed"],
              <<"set_propagate_timer", blk, 3>>)

(* The Echo is created first (issue_echo), then broadcast, self-delivered  *)
(* or sent to the proposer.                                                *)
_propagate_blk(s, blk) ==
    IF IsCommitHeight(Height[blk])
    THEN SetPropagateTimer(
             on_receive_echo(Emit(Emit(s, <<"issue_echo", blk>>),
                                  <<"broadcast_echo", blk>>),
                             id, blk, BLOCK),
             blk)
    ELSE IF id = get_proposer(s)
    THEN on_receive_echo(Emit(s, <<"issue_echo", blk>>), id, blk, BLOCK)
    ELSE Emit(Emit(s, <<"issue_echo", blk>>), <<"send_echo", blk, get_proposer(s)>>)

(* A mutation: the size of the slot is not looked at after the insert.    *)
NoEquivocation_noRecheck(s, bnew) ==
    Cardinality(s.proposals[Height[bnew]]) <= 1

(* pslot.size() <= 1 on entry, and still one element after the insert.    *)
NoEquivocation(s, bnew) ==
    /\ Cardinality(s.proposals[Height[bnew]]) <= 1
    /\ Cardinality(s.proposals[Height[bnew]] \cup {bnew}) <= 1

(* pslot.insert(bnew) when pslot.size() <= 1                               *)
InsertProposal(s, bnew) ==
    IF Cardinality(s.proposals[Height[bnew]]) <= 1
    THEN [s EXCEPT !.proposals[Height[bnew]] = @ \cup {bnew}]
    ELSE s

(* The walk from bnew down parents[0] ends at hqc.first.                   *)
ExtendsHqc(s, bnew) == WalkDown(bnew, Height[s.hqc]) = s.hqc

(* The end of on_receive_proposal: on_qc_finish for the qc_ref, the        *)
(* finished_propose flag, the promise, and the propagation when opinion.   *)
FinishProposal(s, bnew, opinion) ==
    IF opinion
    THEN _propagate_blk(
             on_receive_proposal_(
                 [(IF s.qc_ref[bnew] # {}
                   THEN on_qc_finish(s, The(s.qc_ref[bnew])) ELSE s)
                  EXCEPT !.finished_propose = @ \cup {bnew},
                         !.vheight = Height[bnew]], bnew), bnew)
    ELSE on_receive_proposal_(
             [(IF s.qc_ref[bnew] # {}
               THEN on_qc_finish(s, The(s.qc_ref[bnew])) ELSE s)
              EXCEPT !.finished_propose = @ \cup {bnew}], bnew)

(* on_receive_proposal once the qc_ref of bnew has updated hqc (s1): the   *)
(* slot insert, the blame on equivocation, and the opinion.                *)
FormOpinion(s1, bnew) ==
    IF NoEquivocation(s1, bnew)
    THEN FinishProposal(InsertProposal(s1, bnew), bnew,
                        ExtendsHqc(s1, bnew))
    ELSE IF Cardinality(s1.proposals[Height[bnew]]) <= 1
    THEN FinishProposal(_blame(InsertProposal(s1, bnew)), bnew, FALSE)
    ELSE FinishProposal(s1, bnew, FALSE)

on_receive_proposal(s, proposer, bnew) ==
    IF s.view_trans THEN s
    ELSE IF bnew \in s.finished_propose THEN s
    ELSE IF bnew \notin s.delivered THEN Raise(s, "block not delivered")
    ELSE FormOpinion(IF s.qc_ref[bnew] # {}
                     THEN update_hqc(s, The(s.qc_ref[bnew])) ELSE s, bnew)

(* A mutation: votes are recorded beyond the quorum.                       *)
VoteCounted_noCap(s, voter, blk) == voter \notin s.voted[blk]

(* qsize < config.nmajority and the voter is new                           *)
VoteCounted(s, voter, blk) ==
    /\ Cardinality(s.voted[blk]) < nmajority
    /\ voter \notin s.voted[blk]

VoteQuorum(s, blk) == Cardinality(s.voted[blk]) + 1 = nmajority

(* blk->voted.insert(voter) and qc->add_part(voter, cert)                  *)
RecordVote(s, voter, blk) ==
    [s EXCEPT !.voted[blk] = @ \cup {voter},
              !.self_qc[blk] = Append(@, voter)]

(* on_receive_vote after the proposal of blk has been processed            *)
CountVote(s1, voter, blk) ==
    IF Failed(s1) THEN s1
    ELSE IF ~VoteCounted(s1, voter, blk) THEN s1
    ELSE IF VoteQuorum(s1, blk)
    THEN update_hqc(RecordVote(s1, voter, blk), blk)
    ELSE RecordVote(s1, voter, blk)

(* A mutation: the vote is counted without handling the proposal.         *)
on_receive_vote_noProposal(s, voter, blk) ==
    IF blk \notin s.delivered THEN Raise(s, "block not delivered")
    ELSE CountVote(s, voter, blk)

on_receive_vote(s, voter, blk) ==
    IF blk \notin s.delivered THEN Raise(s, "block not delivered")
    ELSE CountVote(IF blk \notin s.finished_propose
                   THEN on_receive_proposal(s, voter, blk) ELSE s,
                   voter, blk)

on_receive_notify(s, blk) ==
    IF blk \notin s.delivered THEN Raise(s, "block not delivered")
    ELSE update_hqc(s, blk)

(* ----------------------------- pre-commit ------------------------------ *)
PreCommitCounted(s, rid, blk) ==
    /\ Cardinality(s.preCommitted[blk]) < nmajority
    /\ rid \notin s.preCommitted[blk]

(* A mutation: the commit is triggered by the first PreCommit.             *)
PreCommitQuorum_first(s, blk) == Cardinality(s.preCommitted[blk]) + 1 >= 1

(* qsize + 1 == config.nmajority                                           *)
PreCommitQuorum(s, blk) == Cardinality(s.preCommitted[blk]) + 1 = nmajority

on_receive_pre_commit(s, rid, blk) ==
    IF blk \notin s.delivered THEN Raise(s, "block not delivered")
    ELSE IF ~PreCommitCounted(s, rid, blk) THEN s
    ELSE IF PreCommitQuorum(s, blk)
    THEN check_commit([s EXCEPT !.preCommitted[blk] = @ \cup {rid}], blk)
    ELSE [s EXCEPT !.preCommitted[blk] = @ \cup {rid}]

on_pre_commit_timeout(s, blk) ==
    on_receive_pre_commit(Emit(s, <<"broadcast_pre_commit", blk>>), id, blk)

on_commit_timeout(s, blk) == check_commit(s, blk)

(* ------------------------------- prune --------------------------------- *)
NoBlock == -1

(* for (start = b_exec; staleness; staleness--, start = start->parents[0]) *)
(*     if (!start->parents.size()) return;                                 *)
RECURSIVE PruneStart(_, _, _)
PruneStart(s, start, staleness) ==
    IF staleness = 0 THEN start
    ELSE IF s.parents[start] = << >> THEN NoBlock
    ELSE PruneStart(s, s.parents[start][1], staleness - 1)

(* storage->try_release_blk(blk): the store lets go of the block.          *)
try_release_blk(s, blk) == [s EXCEPT !.store = @ \ {blk}]

(* blk->qc_ref = nullptr; s.push(blk->parents.back());                     *)
(* blk->parents.pop_back();  The top of the stack is Head(stack).          *)
PrunePush(s, blk) ==
    [s EXCEPT !.qc_ref[blk] = {},
              !.parents[blk] = SubSeq(@, 1, Len(@) - 1)]

(* A mutation: only parents[0] is followed, the other parents are dropped. *)
PruneNext_first(s, blk) == s.parents[blk][1]

PruneNext(s, blk) == s.parents[blk][Len(s.parents[blk])]

RECURSIVE PruneRelease(_, _)
PruneRelease(s, stack) ==
    IF stack = << >> THEN s
    ELSE IF s.parents[Head(stack)] = << >>
    THEN PruneRelease(try_release_blk(s, Head(stack)), Tail(stack))
    ELSE PruneRelease(PrunePush(s, Head(stack)),
                      <<PruneNext(s, Head(stack))>> \o stack)

prune(s, staleness) ==
    IF PruneStart(s, s.b_exec, staleness) = NoBlock THEN s
    ELSE PruneRelease([s EXCEPT !.qc_ref[PruneStart(s, s.b_exec, staleness)] = {}],
                      <<PruneStart(s, s.b_exec, staleness)>>)

(* ------------------------------ propose -------------------------------- *)
(* on_propose(cmds, parents, extra) creating the block bnew of the         *)
(* universe: parents = Parents[bnew], cmds = Cmds[bnew].                   *)
EmbedsQc(s, bnew) == IsCommitHeight(Height[bnew]) /\ s.last_qc_ref # s.hqc

ProposeHeightOk(s, bnew) == Height[bnew] > s.vheight

(* The new block is created and stored, and last_qc_ref updated.           *)
CreateBlock(s, bnew) ==
    [s EXCEPT !.tails = TailsEraseAll(@, Parents[bnew]),
              !.store = @ \cup {bnew},
              !.self_qc[bnew] = << >>,
              !.last_qc_ref = IF IsCommitHeight(Height[bnew]) THEN s.hqc ELSE @]

(* The end of on_propose: the promise and the broadcast of the proposal.   *)
AnnounceProposal(s4, bnew) ==
    IF Failed(s4) THEN s4
    ELSE Emit(on_propose_(s4, bnew), <<"broadcast_proposal", bnew>>)

(* on_propose after the delivery of bnew: the self-vote and the broadcast. *)
SelfVote(s2, bnew) ==
    IF Failed(s2) THEN s2
    ELSE IF ~ProposeHeightOk(s2, bnew)
    THEN Raise(s2, "new block should be higher than vheight")
    ELSE AnnounceProposal(
             _propagate_blk([s2 EXCEPT !.vheight = Height[bnew],
                                       !.finished_propose = @ \cup {bnew}], bnew),
             bnew)

(* A mutation: the view transition is not looked at.                       *)
on_propose_unguarded(s, bnew) ==
    SelfVote(on_deliver_blk(CreateBlock(s, bnew), bnew,
                            IF EmbedsQc(s, bnew) THEN {s.hqc} ELSE {}),
             bnew)

on_propose(s, bnew) ==
    IF s.view_trans THEN s
    ELSE SelfVote(on_deliver_blk(CreateBlock(s, bnew), bnew,
                                 IF EmbedsQc(s, bnew) THEN {s.hqc} ELSE {}),
                  bnew)

(* ------------------------------ actions -------------------------------- *)
(* A handler that raised halts the replica: no action is enabled after it. *)
Running == exc = "none"

DeliverBlk(b) ==
    /\ Running
    /\ b # b0
    /\ Install(on_deliver_blk([Cur EXCEPT !.store = @ \cup {b}], b, QcRefHash[b]))

Propose(b) ==
    /\ Running
    /\ b \notin store
    /\ ParentSet(b) \subseteq store
    /\ Install(on_propose(Cur, b))

ReceiveProposal(proposer, b) ==
    /\ Running
    /\ Install(on_receive_proposal(Cur, proposer, b))

ReceiveVote(voter, b) ==
    /\ Running
    /\ Install(on_receive_vote(Cur, voter, b))

ReceiveNotify(b) ==
    /\ Running
    /\ Install(on_receive_notify(Cur, b))

ReceiveBlame(blamer, v) ==
    /\ Running
    /\ Install(on_receive_blame(Cur, blamer, v))

(* The blame QC of a BlameNotify for view v: signed by the other replicas. *)
BlameQcOf(v) == [view |-> v, parts |-> Replicas \ {id}]

ReceiveBlameNotify(v, c) ==
    /\ Running
    /\ Install(on_receive_blamenotify(Cur, v, c, BlameQcOf(v)))

BlameTimeout ==
    /\ Running
    /\ blame_timer
    /\ Install(_blame(Cur))

ViewTransTimeout ==
    /\ Running
    /\ viewtrans_timer
    /\ view < MaxView
    /\ Install(on_viewtrans_timeout(Cur))

ReceiveEcho(rid, h, opcode) ==
    /\ Running
    /\ Install(on_receive_echo(Cur, rid, h, opcode))

ReceiveAck(rid, h, opcode) ==
    /\ Running
    /\ Install(on_receive_ack(Cur, rid, h, opcode))

PropagateTimeout(h) ==
    /\ Running
    /\ propagate_timer[h] = "armed"
    /\ Install([Cur EXCEPT !.propagate_timer[h] = "fired"])

AckTimeout(h) ==
    /\ Running
    /\ ack_timer[h] = "armed"
    /\ Install([Cur EXCEPT !.ack_timer[h] = "fired"])

PreCommitTimeout(b) ==
    /\ Running
    /\ b \in pre_commit_timer
    /\ Install(on_pre_commit_timeout([Cur EXCEPT !.pre_commit_timer = @ \ {b}], b))

ReceivePreCommit(rid, b) ==
    /\ Running
    /\ Install(on_receive_pre_commit(Cur, rid, b))

CommitTimeout(b) ==
    /\ Running
    /\ b \in delivered
    /\ Install(on_commit_timeout(Cur, b))

SetVoteDisabled(f) ==
    /\ Running
    /\ Install([Cur EXCEPT !.vote_disabled = f])

AsyncQcFinish(b) ==
    /\ Running
    /\ b \in store
    /\ Install(async_qc_finish(Cur, b))

Prune(staleness) ==
    /\ Running
    /\ Install(prune(Cur, staleness))

Views == 0 .. MaxView
Stalenesses == 0 .. MaxStaleness

Next ==
    \/ \E b \in Blocks : DeliverBlk(b)
    \/ \E b \in Blocks : Propose(b)
    \/ \E r \in Replicas, b \in Blocks : ReceiveProposal(r, b)
    \/ \E r \in Replicas, b \in Blocks : ReceiveVote(r, b)
    \/ \E b \in Blocks : ReceiveNotify(b)
    \/ \E r \in Replicas, v \in Views : ReceiveBlame(r, v)
    \/ \E v \in Views, c \in Blocks : ReceiveBlameNotify(v, c)
    \/ BlameTimeout
    \/ ViewTransTimeout
    \/ \E r \in Replicas, b \in Blocks, o \in Opcodes : ReceiveEcho(r, b, o)
    \/ \E r \in Replicas, b \in Blocks, o \in Opcodes : ReceiveAck(r, b, o)
    \/ \E b \in Blocks : PropagateTimeout(b)
    \/ \E b \in Blocks : AckTimeout(b)
    \/ \E b \in Blocks : PreCommitTimeout(b)
    \/ \E r \in Replicas, b \in Blocks : ReceivePreCommit(r, b)
    \/ \E b \in Blocks : CommitTimeout(b)
    \/ \E f \in BOOLEAN : SetVoteDisabled(f)
    \/ \E n \in Stalenesses : Prune(n)
    \/ \E b \in Blocks : AsyncQcFinish(b)

Spec == Init /\ [][Next]_vars

(* ---- the commit engine alone: delivery and PreCommit messages ---------- *)
(* The blocks of the fork b0 <- 1 <- {3, 4}, 3 <- 5.                        *)
ForkBlocks == {1, 3, 4, 5}

NextPreCommit ==
    \/ \E b \in ForkBlocks : DeliverBlk(b)
    \/ \E r \in Replicas, b \in ForkBlocks : ReceivePreCommit(r, b)

SpecPreCommit == Init /\ [][NextPreCommit]_vars

(* ---- the commit engine with the commit timer's handler ----------------- *)
NextCommit ==
    \/ \E b \in ForkBlocks : DeliverBlk(b)
    \/ \E r \in Replicas, b \in ForkBlocks : ReceivePreCommit(r, b)
    \/ \E b \in ForkBlocks : CommitTimeout(b)

SpecCommit == Init /\ [][NextCommit]_vars

(* ---- check_commit from both of its callers, two PreCommit senders ------ *)
PreCommitSenders == {1, 2}

NextChain ==
    \/ \E b \in ForkBlocks : DeliverBlk(b)
    \/ \E r \in PreCommitSenders, b \in ForkBlocks : ReceivePreCommit(r, b)
    \/ \E b \in ForkBlocks : CommitTimeout(b)

SpecChain == Init /\ [][NextChain]_vars

(* ---- pruning a committed chain ----------------------------------------- *)
(* The chain b0 <- 1 <- 3 <- 5 <- 7 with 4, the second parent of 5.  Blocks *)
(* are delivered and committed while no block has been pruned.             *)
PruneBlocks == {1, 3, 4, 5, 7}

Unpruned == parents = Parents

NextPrune ==
    \/ \E b \in PruneBlocks : Unpruned /\ DeliverBlk(b)
    \/ \E b \in PruneBlocks : Unpruned /\ CommitTimeout(b)
    \/ \E n \in Stalenesses : Prune(n)

SpecPrune == Init /\ [][NextPrune]_vars

(* ---- the view change alone ---------------------------------------------- *)
(* Blames and BlameNotifies of every view, the two timers, and proposals   *)
(* for the delivered block 1, so that proposals is not always empty.       *)
NextViewChange ==
    \/ DeliverBlk(1)
    \/ 1 \in delivered /\ ReceiveProposal(1, 1)
    \/ \E r \in Replicas, v \in Views : ReceiveBlame(r, v)
    \/ \E v \in Views : ReceiveBlameNotify(v, b0)
    \/ BlameTimeout
    \/ ViewTransTimeout

SpecViewChange == Init /\ [][NextViewChange]_vars

(* The host fires the view-transition timer it was asked to arm.           *)
SpecViewChangeLive == SpecViewChange /\ WF_vars(ViewTransTimeout)

(* ---- proposals, highest QC and view change ----------------------------- *)
(* Blocks 1, 2 fork at height 1; 3 and 6 extend 1 and carry a QC over 1    *)
(* and over 2.                                                             *)
ProposalBlocks == {1, 2, 3, 6}

NextProposal ==
    \/ \E b \in ProposalBlocks : DeliverBlk(b)
    \/ \E b \in ProposalBlocks : Propose(b)
    \/ \E b \in ProposalBlocks : ReceiveProposal(1, b)
    \/ \E b \in {1, 2} : ReceiveNotify(b)
    \/ BlameTimeout
    \/ \E v \in Views : ReceiveBlame(1, v)
    \/ \E c \in {1, 2} : ReceiveBlameNotify(view, c)
    \/ ViewTransTimeout

SpecProposal == Init /\ [][NextProposal]_vars

(* ---- the Echo / Ack propagation engine --------------------------------- *)
(* Block 1 is below the commit interval, block 3 is on it; echoes and acks *)
(* arrive for block 3.                                                     *)
PropagationBlocks == {1, 3}

NextPropagation ==
    \/ \E b \in PropagationBlocks : DeliverBlk(b)
    \/ \E b \in PropagationBlocks : Propose(b)
    \/ \E b \in PropagationBlocks : ReceiveProposal(1, b)
    \/ \E r \in Replicas, o \in Opcodes : ReceiveEcho(r, 3, o)
    \/ \E r \in Replicas, o \in Opcodes : ReceiveAck(r, 3, o)
    \/ PropagateTimeout(3)
    \/ AckTimeout(3)
    \/ ReceiveBlameNotify(view, 1)
    \/ ViewTransTimeout

SpecPropagation == Init /\ [][NextPropagation]_vars

(* ---- echoes for a commit-boundary block, within one view -------------- *)
NextEcho ==
    \/ \E b \in PropagationBlocks : DeliverBlk(b)
    \/ \E b \in PropagationBlocks : ReceiveProposal(1, b)
    \/ \E r \in Replicas, o \in Opcodes : ReceiveEcho(r, 3, o)
    \/ \E r \in Replicas : ReceiveAck(r, 3, BLOCK)
    \/ PropagateTimeout(3)
    \/ AckTimeout(3)

SpecEcho == Init /\ [][NextEcho]_vars

(* ---- echoes when the propagation timer fires early --------------------- *)
(* As NextEcho, but the propagation timer of block 3 fires only while its  *)
(* echo set is below nmajority.                                            *)
NextEarlyTimeout ==
    \/ \E b \in PropagationBlocks : DeliverBlk(b)
    \/ \E b \in PropagationBlocks : ReceiveProposal(1, b)
    \/ \E r \in Replicas, o \in Opcodes : ReceiveEcho(r, 3, o)
    \/ \E r \in Replicas : ReceiveAck(r, 3, BLOCK)
    \/ Cardinality(propagate_echos[3]) < nmajority /\ PropagateTimeout(3)
    \/ AckTimeout(3)

SpecEarlyTimeout == Init /\ [][NextEarlyTimeout]_vars

(* ---- echoes for blocks of a non-boundary height ------------------------ *)
(* Blocks 1 and 2 have height 1; the host waits for their QCs.             *)
NextNonBoundary ==
    \/ \E b \in {1, 2} : DeliverBlk(b)
    \/ \E b \in {1, 2} : AsyncQcFinish(b)
    \/ ReceiveProposal(1, 1)
    \/ \E r \in Replicas, b \in {1, 2}, o \in Opcodes : ReceiveEcho(r, b, o)

SpecNonBoundary == Init /\ [][NextNonBoundary]_vars

(* ---- what follows the ack quorum: the vote and the pre-commit timer ---- *)
(* Block 3 carries a QC over block 1; acks arrive for both, with voting    *)
(* switched on and off, inside and outside view transition.                *)
NextPropagated ==
    \/ \E b \in PropagationBlocks : DeliverBlk(b)
    \/ \E b \in PropagationBlocks : ReceiveProposal(1, b)
    \/ \E r \in Replicas, b \in PropagationBlocks : ReceiveAck(r, b, BLOCK)
    \/ \E f \in BOOLEAN : SetVoteDisabled(f)
    \/ ReceiveBlameNotify(view, b0)
    \/ PreCommitTimeout(1)
    \/ \E r \in PreCommitSenders : ReceivePreCommit(r, 1)

SpecPropagated == Init /\ [][NextPropagated]_vars

(* ---- promises for a block's QC, votes and echoes ----------------------- *)
NextQcFinish ==
    \/ \E b \in PropagationBlocks : DeliverBlk(b)
    \/ \E b \in PropagationBlocks \cup {b0} : AsyncQcFinish(b)
    \/ \E r \in Replicas, b \in PropagationBlocks : ReceiveVote(r, b)
    \/ \E r \in Replicas, b \in PropagationBlocks : ReceiveEcho(r, b, BLOCK)

SpecQcFinish == Init /\ [][NextQcFinish]_vars

(* ---- messages for blocks delivered or not ------------------------------ *)
(* Block 1 and its two senders; a message may come before the delivery.   *)
NextConsumers ==
    \/ DeliverBlk(1)
    \/ \E r \in PreCommitSenders : ReceiveVote(r, 1)
    \/ ReceiveNotify(1)
    \/ \E r \in PreCommitSenders : ReceivePreCommit(r, 1)
    \/ \E r \in PreCommitSenders : ReceiveEcho(r, 1, BLOCK)
    \/ \E r \in PreCommitSenders : ReceiveAck(r, 1, BLOCK)

SpecConsumers == Init /\ [][NextConsumers]_vars

(* ---- two blocks of one height, acks, and a view change ----------------- *)
SiblingBlocks == {1, 2}

NextSiblings ==
    \/ \E b \in SiblingBlocks : DeliverBlk(b)
    \/ \E b \in SiblingBlocks : ReceiveProposal(1, b)
    \/ \E r \in Replicas, b \in SiblingBlocks : ReceiveAck(r, b, BLOCK)
    \/ ReceiveBlameNotify(view, 1)
    \/ ViewTransTimeout

SpecSiblings == Init /\ [][NextSiblings]_vars

(* ---- votes from every replica, with the replica's own vote ------------ *)
(* Votes arrive for genesis, for block 1 and for block 3 (which carries a  *)
(* QC over 1); acks for block 1 let the replica issue its own vote.        *)
VoteBlocks == {1, 3}

NextVotes ==
    \/ \E b \in VoteBlocks : DeliverBlk(b)
    \/ \E r \in Replicas, b \in VoteBlocks \cup {b0} : ReceiveVote(r, b)
    \/ \E r \in Replicas : ReceiveAck(r, 1, BLOCK)

SpecVotes == Init /\ [][NextVotes]_vars

(* ---- block delivery: every block, from the network or proposed -------- *)
NextDelivery ==
    \/ \E b \in Blocks : DeliverBlk(b)
    \/ \E b \in Blocks : Propose(b)

SpecDelivery == Init /\ [][NextDelivery]_vars

(* ======================= properties of the commit engine ================ *)
(* a is b or one of its parents[0] ancestors                               *)
IsAncestorOrSelf(a, b) == Height[a] <= Height[b] /\ WalkDown(b, Height[a]) = a

NewlyDecided(b) == decision[b] # 1 /\ decision'[b] = 1

NoPreCommitQuorum == \A b \in Blocks : Cardinality(preCommitted[b]) < nmajority

(* C3: no two distinct blocks of the same height are both committed        *)
(* (decision = 1) at one replica: the committed blocks lie on one          *)
(* parents[0] chain.                                                       *)
C3_CommittedOnOneChain ==
    \A a, b \in Blocks :
        (decision[a] = 1 /\ decision[b] = 1 /\ Height[a] = Height[b]) => a = b

(* C4: b_exec never moves backwards: in every step the new b_exec is at    *)
(* least as high as the previous one and has it as itself or as a          *)
(* parents[0] ancestor.                                                    *)
C4_BExecNeverBackwards ==
    [][/\ Height[b_exec'] >= Height[b_exec]
       /\ IsAncestorOrSelf(b_exec, b_exec')]_vars

C6_OnlyPreCommitQuorumCommits ==
    NoPreCommitQuorum => (b_exec = b0 /\ \A b \in Blocks \ {b0} : decision[b] # 1)

(* C7: a check_commit that raises the safety breach sets no decision,      *)
(* emits nothing and leaves b_exec alone; and every block that becomes     *)
(* committed is connected to the previous b_exec by a parents[0] chain.    *)
C7_CommitConnectedToBExec ==
    [][/\ exc' = "safety breached" =>
              (decision' = decision /\ b_exec' = b_exec /\ out' = << >>)
       /\ \A b \in Blocks : NewlyDecided(b) => IsAncestorOrSelf(b_exec, b)]_vars

(* ================== properties of proposals and votes =================== *)
InOut(o) == \E i \in 1 .. Len(out) : out[i] = o
InOutNext(o) == \E i \in 1 .. Len(out') : out'[i] = o

(* C1: the replica never issues Votes for two distinct blocks of the same  *)
(* height.                                                                 *)
C1_NoTwoVotesSameHeight ==
    \A a, b \in votes_sent : Height[a] = Height[b] => a = b

(* C2: vheight never decreases.                                            *)
C2_VheightNonDecreasing == [][vheight' >= vheight]_vars

(* hqc.first once on_receive_proposal has taken the qc_ref of b into       *)
(* account.                                                                *)
HqcAfterQcRef(b) ==
    IF qc_ref[b] # {} /\ Height[The(qc_ref[b])] > Height[hqc]
    THEN The(qc_ref[b]) ELSE hqc

PositiveOpinionAllowed(b) ==
    /\ proposals[Height[b]] \subseteq {b}
    /\ IsAncestorOrSelf(HqcAfterQcRef(b), b)

(* C8: on_receive_proposal for block b issues an Echo for b only if no     *)
(* different block is recorded in proposals[b.height] and hqc.block, after *)
(* the qc_ref of b is taken into account, is b or a parents[0] ancestor of *)
(* b, and it then sets vheight to b.height; in every other case it issues  *)
(* no Echo for b and leaves vheight unchanged.                             *)
C8_PositiveOpinionOnlyIfSafe ==
    [][\A b \in ProposalBlocks :
          \/ /\ InOutNext(<<"issue_echo", b>>) =>
                    (PositiveOpinionAllowed(b) /\ vheight' = Height[b])
             /\ ~PositiveOpinionAllowed(b) =>
                    (~InOutNext(<<"issue_echo", b>>) /\ vheight' = vheight)
          \/ ~ReceiveProposal(1, b)]_vars

(* C8 witness: a received proposal for a block that carries a qc_ref was   *)
(* given a positive opinion: hqc moved to the qc_ref, vheight is the       *)
(* block's height and an Echo was issued for it.                           *)
C8_Witness ==
    \E b \in Blocks \ {b0} :
        /\ qc_ref[b] = {hqc}
        /\ hqc # b0
        /\ InOut(<<"resolve_receive_proposal", b>>)
        /\ InOut(<<"issue_echo", b>>)
        /\ vheight = Height[b]

(* C9: a Vote is issued for b only from on_propose_propagated and only     *)
(* when propagate_acks[b] holds at least nmajority signers.                *)
C9_VoteOnlyAfterAckQuorum ==
    \A b \in votes_sent :
        /\ Cardinality(propagate_acks[b]) >= nmajority
        /\ propagated[b] >= 1

(* C9 witness: the ack that completed the quorum of block 3 made the       *)
(* replica vote for it.                                                    *)
C9_Witness ==
    /\ 3 \in votes_sent
    /\ InOut(<<"broadcast_vote", 3>>)
    /\ Cardinality(propagate_acks[3]) = nmajority

(* C10: on_propose_propagated is invoked at most once per block hash.      *)
C10_PropagatedAtMostOnce == \A h \in Blocks : propagated[h] <= 1

(* C10 witness: block 3 was propagated once, every replica's echo was      *)
(* recorded afterwards (late echoes, the replica's own among the echoes)   *)
(* and the ack set stays at nmajority.                                     *)
C10_Witness ==
    /\ propagated[3] = 1
    /\ propagate_echos[3] = Replicas
    /\ Cardinality(propagate_acks[3]) = nmajority

(* ================== properties of the highest QC ======================= *)
(* The handling of a proposal for b ran to its end in this step.           *)
ProposalProcessed(b) == b \notin finished_propose /\ b \in finished_propose'

(* The vote recorded in this step completed the quorum of c.               *)
VoteQuorumReached(c) ==
    Cardinality(voted[c]) < nmajority /\ Cardinality(voted'[c]) = nmajority

(* C11: hqc.block.height never decreases, and after the replica has        *)
(* processed a message carrying a QC over a delivered block c (a vote that *)
(* completes the quorum of c, a Notify, the qc_ref of a received proposal, *)
(* the hqc of a received BlameNotify) hqc.block.height >= c.height.        *)
C11_HqcCoversProcessedQc ==
    [][/\ Height[hqc'] >= Height[hqc]
       /\ \A c \in delivered :
             /\ VoteQuorumReached(c) => Height[hqc'] >= Height[c]
             /\ Height[hqc'] >= Height[c] \/ ~ReceiveNotify(c)
             /\ \A b \in Blocks :
                    (ProposalProcessed(b) /\ qc_ref[b] = {c})
                        => Height[hqc'] >= Height[c]
             /\ Height[hqc'] >= Height[c]
                    \/ ~ReceiveBlameNotify(view, c)]_vars

(* ======================== properties of the votes ====================== *)
(* C12: voted(b) never holds more than n replica ids; for a non-genesis    *)
(* block a vote that arrives when voted(b) has reached nmajority is not    *)
(* recorded, so |voted(b)| <= nmajority, and self_qc holds exactly one     *)
(* part per recorded voter.                                                *)
C12_VotesBounded ==
    /\ [](\A b \in Blocks :
            /\ Cardinality(voted[b]) <= NReplicas
            /\ b # b0 =>
                  /\ Cardinality(voted[b]) <= nmajority
                  /\ Len(self_qc[b]) = Cardinality(voted[b])
                  /\ SeqSet(self_qc[b]) = voted[b])
    /\ [][\A b \in Blocks \ {b0} :
              Cardinality(voted[b]) >= nmajority => voted'[b] = voted[b]]_vars

(* C12 witness: block 1 holds a full quorum of votes from the other        *)
(* replicas, with one part each; the replica's own vote, issued later,     *)
(* was not recorded.                                                       *)
C12_Witness ==
    /\ 1 \in votes_sent
    /\ id \notin voted[1]
    /\ Cardinality(voted[1]) = nmajority
    /\ Len(self_qc[1]) = nmajority
    /\ hqc = 1

(* ======================= properties of delivery ======================== *)
NewlyDelivered(b) == b \notin delivered /\ b \in delivered'

InvalidForDelivery(b) ==
    \/ ~(ParentSet(b) \subseteq delivered)
    \/ ~(QcRefHash[b] \subseteq store)

(* C14: on_deliver_blk called with an undelivered block that has an        *)
(* undelivered parent, or a qc whose block is not in the store, raises     *)
(* nothing, leaves the block undelivered and leaves tails unchanged.       *)
C14_InvalidBlockDropped ==
    [][\A b \in Blocks \ {b0} :
          \/ (b \notin delivered /\ InvalidForDelivery(b))
                 => (exc' = "none" /\ delivered' = delivered /\ tails' = tails)
          \/ ~DeliverBlk(b)]_vars

(* ============== properties of vheight and of proposing ================= *)
(* on_receive_proposal for b would run to a positive opinion.              *)
OpinionWouldBePositive(b) ==
    /\ ~view_trans
    /\ b \notin finished_propose
    /\ b \in delivered
    /\ PositiveOpinionAllowed(b)

RaisedAndKept(b) ==
    /\ exc' # "none"
    /\ vheight' = vheight
    /\ ~InOutNext(<<"issue_echo", b>>)

(* C15: every attempt to adopt a block of height <= vheight as the voted   *)
(* block, in on_propose and in on_receive_proposal with a positive         *)
(* opinion, raises an error, leaves vheight unchanged and does not         *)
(* propagate the block.                                                    *)
C15_AdoptBelowVheightRaises ==
    [][\A b \in ProposalBlocks :
          Height[b] <= vheight =>
              /\ (~view_trans => RaisedAndKept(b)) \/ ~Propose(b)
              /\ (OpinionWouldBePositive(b) => RaisedAndKept(b))
                     \/ ~ReceiveProposal(1, b)]_vars

(* Every variable of the replica but the outputs of the last handler.      *)
ReplicaState ==
    <<store, parents, delivered, qc_ref, decision, voted, preCommitted, self_qc, hqc,
      b_exec, vheight, view, view_trans, proposals, finished_propose, blamed,
      blame_qc, last_qc_ref, tails, propagate_echos, propagate_acks, vote_disabled,
      qc_waiting, blame_timer, viewtrans_timer, propagate_timer, ack_timer,
      pre_commit_timer, votes_sent, propagated>>

(* C16: on_propose called while view_trans is true has no effect: no block *)
(* is created or stored, tails, vheight, last_qc_ref and finished_propose  *)
(* are unchanged, nothing is emitted, no future is resolved, no error.     *)
C16_ProposeInViewTransNoEffect ==
    [][\A b \in ProposalBlocks :
          \/ view_trans =>
                 (UNCHANGED ReplicaState /\ out' = << >> /\ exc' = "none")
          \/ ~Propose(b)]_vars

(* C16 witness: in view transition, with a block that on_propose could     *)
(* create on top of a delivered parent, the last handler did nothing.      *)
C16_Witness ==
    /\ view_trans
    /\ out = << >>
    /\ exc = "none"
    /\ \E b \in ProposalBlocks :
          /\ b \notin store
          /\ ParentSet(b) \subseteq delivered
          /\ Height[b] > vheight

(* ===================== properties of equivocation ====================== *)
(* Outside view transition, exactly block a is recorded at the height of   *)
(* the distinct delivered block b.                                         *)
SecondProposal(a, b) ==
    /\ a # b
    /\ Height[a] = Height[b]
    /\ proposals[Height[b]] = {a}
    /\ ~view_trans
    /\ b \in delivered

(* The handler recorded b next to a, broadcast a Blame for the view it     *)
(* started in, and issued neither an Echo nor a Vote for b.                *)
BlamedNotVoted(a, b) ==
    /\ proposals'[Height[b]] = {a, b}
    /\ InOutNext(<<"broadcast_blame", id, view>>)
    /\ ~InOutNext(<<"issue_echo", b>>)
    /\ ~InOutNext(<<"broadcast_vote", b>>)
    /\ b \notin votes_sent' \ votes_sent

OutCountNext(kind) ==
    Cardinality({i \in 1 .. Len(out') : out'[i][1] = kind})

(* The Blame accepted in this step is the nmajority-th distinct one.       *)
BlameQuorumReached ==
    /\ ~view_trans
    /\ Cardinality(blamed) = nmajority - 1
    /\ Cardinality(blamed') = nmajority

EntersViewTrans ==
    /\ view_trans'
    /\ InOutNext(<<"resolve_view_trans">>)
    /\ OutCountNext("broadcast_blamenotify") = 1
    /\ InOutNext(<<"broadcast_blamenotify", view', hqc'>>)
    /\ view' = view
    /\ InOutNext(<<"stop_commit_timer_all">>)
    /\ InOutNext(<<"set_viewtrans_timer", 2>>)
    /\ viewtrans_timer'

(* C18: when, with view_trans false, the nmajority-th distinct Blame is    *)
(* accepted the replica in the same step sets view_trans, resolves the     *)
(* view-trans future, broadcasts exactly one BlameNotify with its current  *)
(* view and hqc, stops all commit timers and arms the view-transition      *)
(* timer with 2*delta; with fewer than nmajority accepted Blames and no    *)
(* BlameNotify received, view_trans stays false.                           *)
C18_BlameQuorumEntersViewTrans ==
    [][/\ BlameQuorumReached => EntersViewTrans
       /\ (~view_trans /\ Cardinality(blamed') < nmajority)
              => (~view_trans'
                    \/ \E c \in {1, 2} : ReceiveBlameNotify(view, c))]_vars

(* C18 witness: the blame quorum was just reached with a highest QC above  *)
(* genesis; the BlameNotify carrying it went out and the view-transition   *)
(* timer is armed.                                                         *)
C18_Witness ==
    /\ view_trans
    /\ Cardinality(blamed) = nmajority
    /\ hqc # b0
    /\ InOut(<<"broadcast_blamenotify", view, hqc>>)
    /\ InOut(<<"set_viewtrans_timer", 2>>)
    /\ viewtrans_timer

ViewTransCompleted ==
    /\ view' = view + 1
    /\ ~view_trans'
    /\ \A h \in Heights : proposals'[h] = {}
    /\ blamed' = {}
    /\ blame_qc' = [view |-> view + 1, parts |-> {}]
    /\ blame_timer'
    /\ InOutNext(<<"set_blame_timer", 3>>)
    /\ InOutNext(<<"resolve_view_change", view + 1>>)
    /\ InOutNext(<<"notify", hqc>>)
    /\ OutCountNext("notify") = 1
    /\ UNCHANGED <<hqc, vheight, b_exec, finished_propose,
                   propagate_echos, propagate_acks>>

EchoQuorumPassed(h) ==
    /\ h \in delivered
    /\ IsCommitHeight(Height[h])
    /\ Cardinality(propagate_echos[h]) >= nmajority
    /\ ack_timer[h] # "fired"

NoAckBroadcast ==
    /\ OutCountNext("multicast_ack") = 0
    /\ OutCountNext("broadcast_proposal") = 0

(* One Ack for h goes to r alone; the replica's own is self-delivered.     *)
AckToStraggler(r, h) ==
    /\ r \in propagate_echos'[h]
    /\ NoAckBroadcast
    /\ r # id =>
          /\ OutCountNext("send_ack") = 1
          /\ InOutNext(<<"send_ack", h, r>>)
          /\ propagate_acks' = propagate_acks
    /\ r = id =>
          /\ OutCountNext("send_ack") = 0
          /\ \/ id \in propagate_acks'[h]
             \/ Cardinality(propagate_acks[h]) >= nmajority

NoAckAtAll ==
    /\ NoAckBroadcast
    /\ OutCountNext("send_ack") = 0
    /\ propagate_acks' = propagate_acks
    /\ propagate_echos' = propagate_echos

(* C20: once propagate_echos[h] of a commit-boundary block has reached     *)
(* nmajority, every further Echo from a signer r not yet recorded,         *)
(* received while the ack timer of h has not expired, makes the replica    *)
(* send exactly one Ack for h to r alone (self-delivered when r is the     *)
(* replica), with no proposal re-broadcast and no multicast; an Echo from  *)
(* a recorded signer causes no Ack.                                        *)
C20_LateEchoGetsAck ==
    [][\A r \in Replicas, o \in Opcodes :
          /\ (EchoQuorumPassed(3) /\ r \notin propagate_echos[3])
                => (AckToStraggler(r, 3) \/ ~ReceiveEcho(r, 3, o))
          /\ r \in propagate_echos[3]
                => (NoAckAtAll \/ ~ReceiveEcho(r, 3, o))]_vars

(* C20 witness: every replica's echo for block 3 is recorded, the last one *)
(* came from another replica after the quorum and was answered with an Ack *)
(* to it alone while the ack timer was running.                            *)
C20_Witness ==
    /\ propagate_echos[3] = Replicas
    /\ ack_timer[3] = "armed"
    /\ Len(out) = 1
    /\ \E r \in Replicas \ {id} : out[1] = <<"send_ack", 3, r>>

(* =================== properties of vote aggregation ==================== *)
(* The proposal of b was handled to its end and the vote of r aggregated:  *)
(* r is among the voters unless the quorum of b is full.                   *)
ProposalThenVote(r, b) ==
    /\ exc' = "none"
    /\ b \in finished_propose'
    /\ InOutNext(<<"resolve_receive_proposal", b>>)
    /\ r \in voted'[b] \/ Cardinality(voted'[b]) >= nmajority
    /\ (r \notin voted[b] /\ r \in voted'[b]) => r \in SeqSet(self_qc'[b])

(* C21: on_receive_vote for a delivered block whose proposal has not been  *)
(* handled, outside view transition, first handles a synthesized proposal  *)
(* through on_receive_proposal (finished_propose becomes true) and then    *)
(* still aggregates the vote: the voter is recorded unless it is a         *)
(* duplicate or the quorum was reached.                                    *)
C21_VoteBeforeProposal ==
    [][\A r \in Replicas, b \in VoteBlocks \cup {b0} :
          (b \in delivered /\ b \notin finished_propose /\ ~view_trans)
              => (ProposalThenVote(r, b) \/ ~ReceiveVote(r, b))]_vars

(* C21 witness: the first vote for block 1 arrived before its proposal:    *)
(* the proposal was handled in the same step (an Echo was issued, the      *)
(* vote height moved) and the voter is recorded.                           *)
C21_Witness ==
    /\ InOut(<<"resolve_receive_proposal", 1>>)
    /\ InOut(<<"issue_echo", 1>>)
    /\ 1 \in finished_propose
    /\ vheight = 1
    /\ Cardinality(voted[1]) = 1
    /\ id \notin voted[1]

(* ==================== properties of check_commit ======================= *)
(* The blocks of the parents[0] chain from a (exclusive) up to b.          *)
ChainAbove(a, b) ==
    {x \in Blocks : IsAncestorOrSelf(x, b) /\ Height[x] > Height[a]}

(* What the commit of the chain from a (exclusive) up to b has to emit:    *)
(* lowest block first, each block's do_consensus and then its commands.    *)
RECURSIVE ExpectedCommit(_, _)
ExpectedCommit(a, b) ==
    IF Height[b] <= Height[a] THEN << >>
    ELSE ExpectedCommit(a, Parents[b][1])
         \o << <<"consensus", b>> >>
         \o [i \in 1 .. Len(Cmds[b]) |->
                <<"decide", id, 1, i - 1, Height[b], Cmds[b][i], b>>]

(* check_commit(b) is called on a delivered block above b_exec.            *)
AboveBExec(b) ==
    /\ b \in delivered
    /\ b # b_exec
    /\ IsAncestorOrSelf(b_exec, b)

CommittedUpTo(b) ==
    /\ exc' = "none"
    /\ \A x \in Blocks :
          decision'[x] = IF x \in ChainAbove(b_exec, b) THEN 1 ELSE decision[x]
    /\ out' = ExpectedCommit(b_exec, b)
    /\ b_exec' = b

(* C22: a successful check_commit(blk) with blk above b_exec marks as      *)
(* committed exactly the blocks of the parents[0] chain from b_exec        *)
(* (exclusive) up to blk, in ascending height order, emitting for each one *)
(* do_consensus followed by one Finality per command in index order with   *)
(* decision 1, the command index, the block's height, the command and the  *)
(* block's hash; it then sets b_exec to blk.                               *)
C22_CommitChainInOrder ==
    [][\A b \in ForkBlocks :
          AboveBExec(b) =>
              /\ CommittedUpTo(b) \/ ~CommitTimeout(b)
              /\ \A r \in PreCommitSenders :
                    (Cardinality(preCommitted[b]) = nmajority - 1
                        /\ r \notin preCommitted[b])
                    => (CommittedUpTo(b) \/ ~ReceivePreCommit(r, b))]_vars

(* C22 witness: with block 1 executed, the commit of block 5 decided 3     *)
(* and then 5, each do_consensus followed by the block's commands.         *)
C22_Witness ==
    /\ b_exec = 5
    /\ Len(out) = 5
    /\ out[1] = <<"consensus", 3>>
    /\ out[2] = <<"decide", id, 1, 0, 2, "c1", 3>>
    /\ out[3] = <<"consensus", 5>>
    /\ out[5] = <<"decide", id, 1, 1, 3, "c2", 5>>

(* =========================== properties of prune ======================== *)
(* The blocks reachable from x through parent_hashes, x included.          *)
RECURSIVE ReachableFrom(_)
ReachableFrom(x) ==
    {x} \cup UNION {ReachableFrom(Parents[x][i]) : i \in 1 .. Len(Parents[x])}

(* The n-th parents[0] ancestor of b (n <= b's height).                     *)
NthAncestor(b, n) == WalkDown(b, Height[b] - n)

Released == store \ store'

(* b_exec heads a committed chain none of whose blocks has been pruned.    *)
UnprunedCommittedChain ==
    /\ Unpruned
    /\ \A x \in Blocks : IsAncestorOrSelf(x, b_exec) => (x \in store /\ decision[x] = 1)

PruneReleasesFrom(n) ==
    IF Height[b_exec] >= n
    THEN Released = ReachableFrom(NthAncestor(b_exec, n))
    ELSE Released = {}

PruneKeeps(n) ==
    Height[b_exec] >= n =>
        \A k \in 0 .. n - 1 : k <= Height[b_exec] => NthAncestor(b_exec, k) \in store'

C24_PruneOnlyBelowStaleness ==
    [][\A n \in Stalenesses :
          (\A b \in Released : Height[b] < Height[b_exec] - n) \/ ~Prune(n)]_vars

(* ===================== properties of the view change ==================== *)
(* C25: view-change evidence must match the current view: a Blame whose    *)
(* view field differs from the current view is not added to blamed and     *)
(* does not count toward the blame quorum, and a BlameNotify whose view    *)
(* field differs from the current view does not start a view transition.   *)
C25_EvidenceOfCurrentView ==
    [][\A v \in Views :
          v # view =>
              /\ \A r \in Replicas :
                    \/ blamed' = blamed /\ blame_qc' = blame_qc /\ view_trans' = view_trans
                    \/ ~ReceiveBlame(r, v)
              /\ view_trans' = view_trans \/ ~ReceiveBlameNotify(v, b0)]_vars

NoStateChange == UNCHANGED ReplicaState /\ out' = << >> /\ exc' = "none"

(* The Blame or BlameNotify is one the view change has no use for.         *)
BlameIsRedundant(r) ==
    \/ view_trans
    \/ r \in blamed
    \/ Cardinality(blamed) >= nmajority

(* C26: view transition is idempotent.  A Blame from an already counted    *)
(* blamer, a Blame after blamed reached nmajority, and any Blame or        *)
(* BlameNotify while view_trans is true change no state; _new_view runs    *)
(* (BlameNotify broadcast, view-transition timer armed) at most once per   *)
(* view: no step emits it twice, and once view_trans is true it stays true *)
(* with no further BlameNotify until the view changes; view never          *)
(* decreases and grows by exactly 1, at the end of a transition.           *)
C26_ViewTransIdempotent ==
    [][/\ \A r \in Replicas, v \in Views :
             BlameIsRedundant(r) => (NoStateChange \/ ~ReceiveBlame(r, v))
       /\ \A v \in Views :
             view_trans => (NoStateChange \/ ~ReceiveBlameNotify(v, b0))
       /\ OutCountNext("broadcast_blamenotify") <= 1
       /\ OutCountNext("set_viewtrans_timer") = OutCountNext("broadcast_blamenotify")
       /\ (view_trans /\ view' = view) =>
              (view_trans' /\ OutCountNext("broadcast_blamenotify") = 0)
       /\ OutCountNext("broadcast_blamenotify") = 1 =>
              (~view_trans /\ view_trans' /\ view' = view)
       /\ view' = view \/ (view' = view + 1 /\ view_trans /\ ~view_trans')]_vars

(* C26 witness: in view 1, after a completed transition, a second          *)
(* transition has started and a further Blame has just been dropped.       *)
C26_Witness ==
    /\ view = 1
    /\ view_trans
    /\ viewtrans_timer
    /\ Cardinality(blamed) = nmajority
    /\ out = << >>

(* The state a completed view transition into view v leaves.               *)
InFreshView(v) ==
    /\ view = v
    /\ ~view_trans
    /\ blamed = {}
    /\ \A h \in Heights : proposals[h] = {}

(* C27: whenever the replica in view v has entered view transition, then,  *)
(* the view-transition timer it armed being fired, it eventually reaches   *)
(* view v + 1 with view_trans false and proposals and blamed empty.        *)
C27_ViewChangeCompletes ==
    \A v \in 0 .. MaxView - 1 : (view = v /\ view_trans) ~> InFreshView(v + 1)

(* C27 witness: the timer armed in view 0 with a recorded proposal has     *)
(* fired: view 1 has just begun.                                           *)
C27_Witness ==
    /\ InFreshView(1)
    /\ InOut(<<"resolve_view_change", 1>>)
    /\ 1 \in finished_propose
    /\ ~viewtrans_timer

(* ===================== decisions are emitted once ======================= *)
(* How often the step's handler emitted the output o.                      *)
EmittedNext(o) == Cardinality({i \in 1 .. Len(out') : out'[i] = o})

(* What a block not yet committed may still emit once, a committed one not *)
(* at all.                                                                 *)
MayEmit(b) == IF decision[b] = 1 THEN 0 ELSE 1

(* C28: over any sequence of PreCommit quorums and commit timeouts,        *)
(* do_consensus is emitted at most once per block and a Finality at most   *)
(* once per (block, command index): a block whose decision is already      *)
(* committed is not committed (queued and emitted) again.                  *)
C28_DecisionsEmittedOnce ==
    [][\A b \in ForkBlocks :
          /\ EmittedNext(<<"consensus", b>>) <= MayEmit(b)
          /\ \A i \in 1 .. Len(Cmds[b]) :
                EmittedNext(<<"decide", id, 1, i - 1, Height[b], Cmds[b][i], b>>)
                    <= MayEmit(b)]_vars

(* ============== the propagation timer and the Ack phase ================= *)
(* Under SpecEarlyTimeout the propagation timer of block 3 has fired only  *)
(* if it fired before propagate_echos[3] reached nmajority.                *)
TimedOutEarly == propagate_timer[3] = "fired"

(* C29 as stated: if the propagation timer for h has fired before          *)
(* propagate_echos[h] reaches nmajority, the replica never re-broadcasts   *)
(* the proposal and never sends any Ack for h, neither the multicast at    *)
(* the quorum step nor a unicast Ack in answer to a later echo.            *)
C29_TimeoutSuppressesAcks ==
    [][TimedOutEarly =>
          /\ OutCountNext("broadcast_proposal") = 0
          /\ OutCountNext("multicast_ack") = 0
          /\ OutCountNext("send_ack") = 0]_vars

(* The step answered the echo of r, which arrived after the quorum.        *)
AnswersLateEcho(r) ==
    /\ Cardinality(propagate_echos[3]) >= nmajority
    /\ r \notin propagate_echos[3]
    /\ r \in propagate_echos'[3]
    /\ out' = << <<"send_ack", 3, r>> >>

(* C29 amended: after such an early timeout the replica never              *)
(* re-broadcasts the proposal, never multicasts an Ack for h and never     *)
(* arms the ack timer of h; the only Ack it sends for h is the unicast Ack *)
(* that answers an echo arriving once propagate_echos[h] has reached       *)
(* nmajority.                                                              *)
C29_TimeoutSuppressesAckBroadcast ==
    [][TimedOutEarly =>
          /\ OutCountNext("broadcast_proposal") = 0
          /\ OutCountNext("multicast_ack") = 0
          /\ OutCountNext("set_ack_timer") = 0
          /\ ack_timer'[3] = "idle"
          /\ OutCountNext("send_ack") = 0
                 \/ \E r \in Replicas \ {id} : AnswersLateEcho(r)]_vars

(* C29 witness: the timer of block 3 fired early, the echo set then passed *)
(* nmajority without an Ack phase, and the last echo got a unicast Ack.    *)
C29_Witness ==
    /\ TimedOutEarly
    /\ ack_timer[3] = "idle"
    /\ propagate_acks[3] = {}
    /\ propagate_echos[3] = Replicas
    /\ \E r \in Replicas \ {id} : out = << <<"send_ack", 3, r>> >>

(* ================= echoes for a non-boundary height ===================== *)
(* Every variable but the echo sets, the pending promises and the outputs. *)
EchoFrame ==
    <<store, parents, delivered, qc_ref, decision, voted, preCommitted, self_qc,
      hqc, b_exec, vheight, view, view_trans, proposals, finished_propose, blamed,
      blame_qc, last_qc_ref, tails, propagate_acks, vote_disabled, blame_timer,
      viewtrans_timer, propagate_timer, ack_timer, pre_commit_timer, votes_sent,
      propagated>>

(* The echo of r brings the echo set of the delivered non-boundary block b *)
(* to nmajority, the propagation timer of b not having fired.              *)
CompletesNonBoundary(r, b) ==
    /\ b \in delivered
    /\ ~IsCommitHeight(Height[b])
    /\ Cardinality(propagate_echos[b]) = nmajority - 1
    /\ r \notin propagate_echos[b]
    /\ propagate_timer[b] # "fired"

(* The pending promise of b, if any, is resolved and nothing else happens. *)
OnlyQcFinish(r, b) ==
    /\ exc' = "none"
    /\ propagate_echos' = [propagate_echos EXCEPT ![b] = @ \cup {r}]
    /\ qc_waiting' = qc_waiting \ {b}
    /\ out' = IF b \in qc_waiting THEN << <<"resolve_qc_finish", b>> >> ELSE << >>
    /\ UNCHANGED EchoFrame

(* No Ack leaves the replica for a block of a non-boundary height.         *)
NoAckForNonBoundary ==
    \A i \in 1 .. Len(out') :
        out'[i][1] \in {"multicast_ack", "send_ack"} => IsCommitHeight(Height[out'[i][2]])

PropagatedNow(h) == propagated'[h] > propagated[h]

VoteIssuedNext(h) == InOutNext(<<"broadcast_vote", h>>)

(* The pre-commit timer of 2 delta is armed for the qc_ref of h, if any.   *)
PreCommitTimerArmedNext(h) ==
    /\ qc_ref[h] # {}
    /\ InOutNext(<<"set_pre_commit_timer", The(qc_ref[h]), 2>>)
    /\ The(qc_ref[h]) \in pre_commit_timer'

VoteAndTimerAfterAcks(h) ==
    IF view_trans
    THEN /\ ~VoteIssuedNext(h)
         /\ OutCountNext("set_pre_commit_timer") = 0
         /\ pre_commit_timer' = pre_commit_timer
    ELSE /\ VoteIssuedNext(h) <=> ~vote_disabled
         /\ PreCommitTimerArmedNext(h) <=> qc_ref[h] # {}
         /\ qc_ref[h] = {} =>
                (OutCountNext("set_pre_commit_timer") = 0
                    /\ pre_commit_timer' = pre_commit_timer)

C32_PromiseResolvedAtQc ==
    [][\A b \in PropagationBlocks \cup {b0} :
          /\ (b \in qc_waiting /\ VoteQuorumReached(b)) =>
                 (b \notin qc_waiting' /\ InOutNext(<<"resolve_qc_finish", b>>))
          /\ \/ InOutNext(<<"resolve_qc_finish", b>>) =>
                    (b = b0 \/ Cardinality(propagate_echos[b]) >= nmajority)
             \/ ~AsyncQcFinish(b)]_vars

(* ================== delivery precedes every consumer ==================== *)
RaisesAndRecordsNothing ==
    /\ exc' = "block not delivered"
    /\ voted' = voted
    /\ preCommitted' = preCommitted
    /\ propagate_echos' = propagate_echos
    /\ propagate_acks' = propagate_acks
    /\ hqc' = hqc

(* C33: on_receive_vote, on_receive_notify, on_receive_pre_commit,         *)
(* on_receive_echo and on_receive_ack called with the hash of a block that *)
(* is not delivered raise 'block not delivered' and record nothing: no     *)
(* signer is added to voted, preCommitted, propagate_echos or              *)
(* propagate_acks, and hqc is unchanged.                                   *)
C33_UndeliveredRaises ==
    [][\A b \in {1} :
          b \notin delivered =>
              /\ RaisesAndRecordsNothing \/ ~ReceiveNotify(b)
              /\ \A r \in PreCommitSenders :
                    /\ RaisesAndRecordsNothing \/ ~ReceiveVote(r, b)
                    /\ RaisesAndRecordsNothing \/ ~ReceivePreCommit(r, b)
                    /\ RaisesAndRecordsNothing \/ ~ReceiveEcho(r, b, BLOCK)
                    /\ RaisesAndRecordsNothing \/ ~ReceiveAck(r, b, BLOCK)]_vars

====
